---- MODULE Spec2Model ----
(***************************************************************************)
(* Model of the match allocator / fleet controller (src/match-allocator.js) *)
(*                                                                         *)
(* The program is a single-threaded Node.js process: code between two      *)
(* awaited I/O operations runs atomically.  Every action below is          *)
(* therefore "one I/O completion plus the continuation that runs until the *)
(* next awaited I/O".  Handlers are written as operators over a record `s` *)
(* holding the mutable program state; an action applies one of them to the *)
(* current state and commits the result.                                   *)
(*                                                                         *)
(* vmPool values are JavaScript objects: a handler keeps a reference `vm`  *)
(* to the object it read from Object.entries(vmPool), and the pool entry   *)
(* may be deleted or replaced by a new object while the handler awaits.    *)
(* An object is identified here by <<instanceId, generation>>; `cur` maps  *)
(* an instanceId to the generation currently stored in vmPool (0: absent)  *)
(* and `keys` is the insertion order of the keys of vmPool.                *)
(*                                                                         *)
(* The ip of an instance is taken to be fixed per instance, so a VM's ip   *)
(* is represented by its instanceId.                                       *)
(***************************************************************************)
EXTENDS Integers, Sequences, FiniteSets, TLC

\* ------------------------------------------------------------------
\* Configuration read from the environment at startup (lines 14-21),
\* scaled to small values.
FULL_MATCH_LIMIT == 2
MAX_BACKUP_VMS == 2
NEAR_CAPACITY_THRESHOLD == 1
VM_UNREACHABLE_TERMINATE_THRESHOLD == 2
VM_AGE_TERMINATE_MINUTES == 90

\* ------------------------------------------------------------------
\* Bounds of the model.
MaxInst == 3      \* instance ids RunInstances can hand out (launch capacity)
MaxTicks == 3     \* executions of updateVMs, the startup one included
MaxReqs == 2      \* match requests
MaxTime == 1      \* clock values 0..MaxTime, one unit = 90 minutes
maxPoll == 2      \* poll attempts of launchBackupVM (40 in the source, line 151)
MaxMatchId == 1   \* matchIds a client may send

Inst == 1..MaxInst
Ticks == {"t1", "t2"}
Reqs == {"r1", "r2"}
Procs == Ticks \cup Reqs
Gens == 1..(Cardinality(Procs) + 1)
NULL == 0

Minutes(t) == t * 90

VARIABLES
  minBackup,    \* MIN_BACKUP_VMS, read from the environment at startup
  cloud,        \* cloud provider: instance -> "none"|"pending"|"running"|"terminated"
  nextInst,     \* next instance id RunInstances hands out
  now,          \* wall clock
  keys,         \* Object.keys(vmPool), in insertion order
  cur,          \* vmPool: instance -> generation of its record (0: not in vmPool)
  heap,         \* the VM record objects
  protectedVM,  \* instanceId or NULL
  launching,    \* single-flight flag
  matches,      \* matchId -> match record, NoMatch where there is none
  timerArmed,   \* setInterval(updateVMs) has been called
  ticksLeft,    \* executions of updateVMs still to start
  reqsLeft,     \* match requests still to arrive
  pc,           \* per task: the I/O it is awaiting
  loc           \* per task: its local variables

vars == <<minBackup, cloud, nextInst, now, keys, cur, heap, protectedVM,
          launching, matches, timerArmed, ticksLeft, reqsLeft, pc, loc>>

MIN_BACKUP_VMS == minBackup

\* matches[matchId] of a matchId that was never stored
NoMatch == [vm |-> NULL, startedAt |-> 0]

\* ------------------------------------------------------------------
\* Records
Rec0 == [mc |-> 0, uc |-> 0, la |-> 0, ls |-> 0]

Loc0 ==
  [ entries |-> <<>>,   \* Object.entries(vmPool) still to visit (updateVMs), as refs
    free    |-> 0,      \* totalFreeSlots
    diff    |-> 0,      \* top-up loop: diff and i
    i       |-> 0,
    lret    |-> "none", \* who called launchBackupVM: "topup" | "scale" | "req"
    inst    |-> NULL,   \* launchBackupVM: instanceId
    polls   |-> 0,      \* launchBackupVM: loop counter i
    pend    |-> {},     \* getAvailableVM: status probes in flight (refs)
    terms   |-> {},     \* getAvailableVM: TerminateInstances calls in flight
    target  |-> NULL,   \* handleMatchRequest: targetVM.instanceId
    mid     |-> NULL,   \* handleMatchRequest: matchId
    resp    |-> 0,      \* the HTTP status this request slot answered last
    guard   |-> "none", \* how the last launchBackupVM call passed lines 133-140:
                        \* "busy" | "full" | "passed"
    runs    |-> 0,      \* RunInstances calls issued by this invocation
    fresh   |-> FALSE,  \* targetVM came from launchBackupVM
    clean   |-> TRUE ]  \* no cloud call of this invocation failed and none of
                        \* its launches timed out; kept after a tick has ended

\* The mutable program state as one record.
State ==
  [ cloud |-> cloud, nextInst |-> nextInst, keys |-> keys,
    cur |-> cur, heap |-> heap, prot |-> protectedVM,
    launching |-> launching, matches |-> matches, timerArmed |-> timerArmed,
    pc |-> pc, loc |-> loc ]

\* ------------------------------------------------------------------
\* vmPool primitives
InPool(s, id) == s.cur[id] # 0
PoolSize(s) == Len(s.keys)
Ref(s, id) == <<id, s.cur[id]>>
Obj(s, ref) == s.heap[ref[1]][ref[2]]
SetObj(s, ref, r) == [s EXCEPT !.heap[ref[1]][ref[2]] = r]
PoolRec(s, id) == s.heap[id][s.cur[id]]

RECURSIVE Without(_, _)
Without(seq, id) ==
  IF seq = <<>> THEN <<>>
  ELSE IF Head(seq) = id THEN Without(Tail(seq), id)
       ELSE <<Head(seq)>> \o Without(Tail(seq), id)

\* delete vmPool[id]
Delete(s, id) ==
  [s EXCEPT !.keys = Without(s.keys, id), !.cur[id] = 0]

Range(seq) == { seq[k] : k \in 1..Len(seq) }

\* the object is the one in vmPool or a task still holds a reference to it
Reachable(s, ref) ==
  \/ s.cur[ref[1]] = ref[2]
  \/ \E p \in Procs : ref \in Range(s.loc[p].entries) \cup s.loc[p].pend

\* vmPool[id] = { ip, matchCount: 0, unreachableCount: 0, launchedAt: nowMs(), lastSeen: nowMs() }
\* a new object: the first generation nothing refers to
NewRecord(s, id) ==
  LET g == CHOOSE g \in Gens : /\ ~Reachable(s, <<id, g>>)
                               /\ \A h \in 1..(g - 1) : Reachable(s, <<id, h>>) IN
  [s EXCEPT !.heap[id][g] = [mc |-> 0, uc |-> 0, la |-> now, ls |-> now],
            !.cur[id] = g,
            !.keys = IF InPool(s, id) THEN s.keys ELSE Append(s.keys, id)]

\* ids.sort((a, b) => vmPool[a].launchedAt - vmPool[b].launchedAt)[0], the sort
\* being stable: the first id of `ids` whose launchedAt is minimal.
RECURSIVE OldestOf(_, _)
OldestOf(s, ids) ==
  IF Len(ids) = 1 THEN ids[1]
  ELSE LET rest == OldestOf(s, Tail(ids)) IN
       IF PoolRec(s, Head(ids)).la <= PoolRec(s, rest).la THEN Head(ids) ELSE rest

\* ------------------------------------------------------------------
\* syncWithCloud, after DescribeInstances({}) answered
\* the first loop of syncWithCloud (lines 77-90) removing nothing
SyncRemove_Nothing(s, ids) == s

RECURSIVE SyncRemove(_, _)
SyncRemove(s, ids) ==
  IF ids = <<>> THEN s
  ELSE LET id == Head(ids) IN
       IF s.cloud[id] # "running"
       THEN SyncRemove([Delete(s, id) EXCEPT
                          !.prot = IF s.prot = id THEN NULL ELSE s.prot],
                       Tail(ids))
       ELSE SyncRemove(s, Tail(ids))

RECURSIVE SyncAdd(_, _)
SyncAdd(s, id) ==
  IF id > MaxInst THEN s
  ELSE IF s.cloud[id] = "running" /\ ~InPool(s, id)
       THEN SyncAdd(NewRecord(s, id), id + 1)
       ELSE SyncAdd(s, id + 1)

SyncProtect(s) ==
  IF s.prot = NULL
  THEN IF Len(s.keys) > 0 THEN [s EXCEPT !.prot = OldestOf(s, s.keys)] ELSE s
  ELSE IF ~InPool(s, s.prot) THEN [s EXCEPT !.prot = NULL] ELSE s

syncWithCloud(s, ok) ==
  IF ok THEN SyncProtect(SyncAdd(SyncRemove(s, s.keys), 1)) ELSE s

\* ------------------------------------------------------------------
\* recomputeProtectedVM (lines 289-318).  Timestamps are never 0 in the
\* program, so `current.lastSeen || current.launchedAt` is lastSeen.
recomputeProtectedVM(s) ==
  LET s1 == IF s.prot # NULL /\ ~InPool(s, s.prot) THEN [s EXCEPT !.prot = NULL] ELSE s IN
  IF s1.prot = NULL
  THEN IF Len(s1.keys) > 0 THEN [s1 EXCEPT !.prot = OldestOf(s1, s1.keys)] ELSE s1
  ELSE LET idleForMinutes == Minutes(now - PoolRec(s1, s1.prot).ls)
           candidates == SelectSeq(s1.keys, LAMBDA id : id # s1.prot)
       IN IF idleForMinutes > 60 /\ Len(candidates) > 0
          THEN [s1 EXCEPT !.prot = OldestOf(s1, candidates)]
          ELSE s1

\* ------------------------------------------------------------------
\* updateVMs after the loop, and launchBackupVM up to its first await
RECURSIVE launchBackupVM(_, _, _)
RECURSIVE AfterLaunch(_, _, _)
RECURSIVE TopUpLoop(_, _)

\* step 5 and the end of updateVMs; the startup call then arms the timer (line 444)
FinishTick(s, p) ==
  [recomputeProtectedVM(s) EXCEPT !.pc[p] = "idle",
                                  !.loc[p] = [Loc0 EXCEPT !.clean = s.loc[p].clean],
                                  !.timerArmed = TRUE]

\* step 4 (lines 374-377)
ScaleUp(s, p) ==
  IF s.loc[p].free <= NEAR_CAPACITY_THRESHOLD /\ PoolSize(s) < MAX_BACKUP_VMS
  THEN launchBackupVM(s, p, "scale")
  ELSE FinishTick(s, p)

\* step 3 (lines 364-371)
TopUpLoop(s, p) ==
  IF s.loc[p].i < s.loc[p].diff THEN launchBackupVM(s, p, "topup") ELSE ScaleUp(s, p)

TopUp(s, p) ==
  LET runningCount == PoolSize(s) IN
  IF runningCount < MIN_BACKUP_VMS
  THEN TopUpLoop([s EXCEPT !.loc[p].diff = MIN_BACKUP_VMS - runningCount, !.loc[p].i = 0], p)
  ELSE ScaleUp(s, p)

\* the end of a request: res.status(code)
Respond(s, p, code) ==
  [s EXCEPT !.pc[p] = "idle",
            !.loc[p] = [Loc0 EXCEPT !.resp = code, !.guard = s.loc[p].guard,
                                    !.runs = s.loc[p].runs]]

\* the caller of launchBackupVM resumes with its result (an instanceId or NULL)
AfterLaunch(s, p, result) ==
  CASE s.loc[p].lret = "topup" ->
         TopUpLoop([s EXCEPT !.loc[p].i = @ + 1, !.loc[p].lret = "none"], p)
    [] s.loc[p].lret = "scale" ->
         FinishTick(s, p)
    [] OTHER ->
         IF result = NULL THEN Respond(s, p, 503)
         ELSE [s EXCEPT !.pc[p] = "start", !.loc[p].target = result,
                        !.loc[p].fresh = TRUE, !.loc[p].lret = "none"]

\* launchBackupVM without the check of the flag (line 133)
launchBackupVM_NoFlagCheck(s, p, ret) ==
  LET s1 == [s EXCEPT !.loc[p].lret = ret] IN
  IF PoolSize(s1) >= MAX_BACKUP_VMS
  THEN AfterLaunch([s1 EXCEPT !.loc[p].guard = "full"], p, NULL)
  ELSE [s1 EXCEPT !.launching = TRUE, !.pc[p] = "run", !.loc[p].runs = @ + 1,
                  !.loc[p].guard = "passed"]

\* launchBackupVM without the check of the pool ceiling (line 137)
launchBackupVM_NoCeilingCheck(s, p, ret) ==
  LET s1 == [s EXCEPT !.loc[p].lret = ret] IN
  IF s1.launching THEN AfterLaunch([s1 EXCEPT !.loc[p].guard = "busy"], p, NULL)
  ELSE [s1 EXCEPT !.launching = TRUE, !.pc[p] = "run", !.loc[p].runs = @ + 1,
                  !.loc[p].guard = "passed"]

\* lines 132-145: the two guards, then the flag and the RunInstances call
launchBackupVM(s, p, ret) ==
  LET s1 == [s EXCEPT !.loc[p].lret = ret] IN
  IF s1.launching THEN AfterLaunch([s1 EXCEPT !.loc[p].guard = "busy"], p, NULL)
  ELSE IF PoolSize(s1) >= MAX_BACKUP_VMS
       THEN AfterLaunch([s1 EXCEPT !.loc[p].guard = "full"], p, NULL)
  ELSE [s1 EXCEPT !.launching = TRUE, !.pc[p] = "run", !.loc[p].runs = @ + 1,
                  !.loc[p].guard = "passed"]

\* launchBackupVM returning without the `finally` of line 194
LaunchReturn_KeepFlag(s, p, result) ==
  AfterLaunch([s EXCEPT !.loc[p].inst = NULL, !.loc[p].polls = 0], p, result)

\* the `finally` of launchBackupVM (line 194), then back to the caller
LaunchReturn(s, p, result) ==
  AfterLaunch([s EXCEPT !.launching = FALSE, !.loc[p].inst = NULL, !.loc[p].polls = 0],
              p, result)

\* lines 146-148 and the catch of line 190
RunInstancesDone(s, p, ok) ==
  IF ok
  THEN [s EXCEPT !.cloud[s.nextInst] = "pending", !.nextInst = @ + 1,
                 !.pc[p] = "poll", !.loc[p].inst = s.nextInst, !.loc[p].polls = 0]
  ELSE LaunchReturn([s EXCEPT !.loc[p].clean = FALSE], p, NULL)

\* lines 175-179
ChooseProtected(s, instanceId) ==
  IF s.prot = NULL THEN [s EXCEPT !.prot = instanceId] ELSE s

\* one iteration of the poll loop (lines 153-173) and, when the loop ends,
\* lines 175-189.  seen: "running" | "other" | "error"
PollDone(s, p, seen) ==
  LET instanceId == s.loc[p].inst IN
  IF seen = "running"
  THEN LaunchReturn(ChooseProtected(NewRecord(s, instanceId), instanceId),
                    p, instanceId)
  ELSE LET s1 == [s EXCEPT !.loc[p].polls = @ + 1,
                           !.loc[p].clean = IF seen = "error" THEN FALSE ELSE @] IN
       IF s1.loc[p].polls < maxPoll THEN s1
       ELSE [ChooseProtected(s1, instanceId) EXCEPT !.pc[p] = "termLaunch",
                                                    !.loc[p].clean = FALSE]

\* lines 184-186: TerminateInstances answered (or threw), delete, return null
LaunchCleanupDone(s, p, ok) ==
  LET instanceId == s.loc[p].inst
      s1 == IF ok THEN [s EXCEPT !.cloud[instanceId] = "terminated"]
            ELSE [s EXCEPT !.loc[p].clean = FALSE]
  IN LaunchReturn(Delete(s1, instanceId), p, NULL)

\* ------------------------------------------------------------------
\* refreshVmStatus (lines 202-234)

\* line 206 and 210: activeMatches coerced to a non-negative number
Normalize(data) ==
  IF data.finite THEN (IF data.v < 0 THEN 0 ELSE data.v) ELSE 0

\* what a worker's GET /status may answer: any number of active matches, or
\* something that is not a number
StatusReplies ==
  [finite : {TRUE}, v : -1..FULL_MATCH_LIMIT] \cup { [finite |-> FALSE, v |-> 0] }

\* lines 206-211: the probe succeeded
ProbeOk(s, ref, data) ==
  SetObj(s, ref, [Obj(s, ref) EXCEPT !.mc = Normalize(data), !.uc = 0, !.ls = now])

\* line 213: the probe failed
ProbeFail(s, ref) ==
  SetObj(s, ref, [Obj(s, ref) EXCEPT !.uc = @ + 1])

AgeMinutes(s, ref) == Minutes(now - Obj(s, ref).la)

\* lines 217 and 219: the unreachable VM is to be terminated
UnreachableEligible(s, ref) ==
  /\ Obj(s, ref).uc >= VM_UNREACHABLE_TERMINATE_THRESHOLD
  /\ AgeMinutes(s, ref) >= VM_AGE_TERMINATE_MINUTES
  /\ ref[1] # s.prot
  /\ PoolSize(s) > MIN_BACKUP_VMS

\* lines 338-345: the idle VM is to be terminated
IdleEligible(s, ref) ==
  /\ Obj(s, ref).mc = 0
  /\ PoolSize(s) > MIN_BACKUP_VMS
  /\ ref[1] # s.prot
  /\ AgeMinutes(s, ref) >= VM_AGE_TERMINATE_MINUTES

\* TerminateInstances answered or threw
Terminated(s, id, ok) ==
  IF ok THEN [s EXCEPT !.cloud[id] = "terminated"] ELSE s

\* ------------------------------------------------------------------
\* updateVMs: the loop of step 2 (lines 329-361)
Entries(s) == [k \in 1..Len(s.keys) |-> Ref(s, s.keys[k])]

TickLoop(s, p) ==
  IF s.loc[p].entries = <<>> THEN TopUp(s, p) ELSE [s EXCEPT !.pc[p] = "probe"]

TickNext(s, p) == TickLoop([s EXCEPT !.loc[p].entries = Tail(@)], p)

\* lines 326-329: DescribeInstances({}) answered or threw
TickSynced(s, p, ok) ==
  LET s1 == syncWithCloud([s EXCEPT !.loc[p].clean = ok], ok) IN
  TickLoop([s1 EXCEPT !.loc[p].entries = Entries(s1), !.loc[p].free = 0], p)

\* lines 332-357 after a successful probe
TickProbeOk(s, p, data) ==
  LET ref == Head(s.loc[p].entries)
      s1 == ProbeOk(s, ref, data)
      freeSlots == IF FULL_MATCH_LIMIT - Obj(s1, ref).mc > 0
                   THEN FULL_MATCH_LIMIT - Obj(s1, ref).mc ELSE 0
      s2 == [s1 EXCEPT !.loc[p].free = @ + freeSlots]
  IN IF IdleEligible(s2, ref) THEN [s2 EXCEPT !.pc[p] = "termIdle"] ELSE TickNext(s2, p)

\* lines 332 and 358 after a failed probe
TickProbeFail(s, p) ==
  LET ref == Head(s.loc[p].entries)
      s1 == ProbeFail(s, ref)
  IN IF UnreachableEligible(s1, ref) THEN [s1 EXCEPT !.pc[p] = "termUnreach"]
     ELSE TickNext(s1, p)

\* lines 222-227
TickUnreachTerminated(s, p, ok) ==
  LET id == Head(s.loc[p].entries)[1] IN
  TickNext(Delete(Terminated([s EXCEPT !.loc[p].clean = @ /\ ok], id, ok), id), p)

\* lines 347-353
TickIdleTerminated(s, p, ok) ==
  LET id == Head(s.loc[p].entries)[1]
      s1 == Delete(Terminated([s EXCEPT !.loc[p].clean = @ /\ ok], id, ok), id)
  IN TickNext([s1 EXCEPT !.prot = IF @ = id THEN NULL ELSE @], p)

\* ------------------------------------------------------------------
\* getAvailableVM (lines 240-257) and handleMatchRequest (lines 387-420)

\* .sort((a, b) => (a.matchCount - b.matchCount) || (a.lastSeen - b.lastSeen))[0],
\* the sort being stable
Before(a, b) == a.mc < b.mc \/ (a.mc = b.mc /\ a.ls <= b.ls)

RECURSIVE BestOf(_, _)
BestOf(s, ids) ==
  IF Len(ids) = 1 THEN ids[1]
  ELSE LET rest == BestOf(s, Tail(ids)) IN
       IF Before(PoolRec(s, Head(ids)), PoolRec(s, rest)) THEN Head(ids) ELSE rest

\* line 247
IsCandidate(s, id) == PoolRec(s, id).mc < FULL_MATCH_LIMIT

Candidates(s) == SelectSeq(s.keys, LAMBDA id : IsCandidate(s, id))

\* getAvailableVM giving up instead of launching when nothing has a free slot
Select_NoLaunch(s, p) ==
  IF Len(Candidates(s)) > 0
  THEN [s EXCEPT !.pc[p] = "start", !.loc[p].target = BestOf(s, Candidates(s))]
  ELSE Respond(s, p, 503)

\* lines 246-256, once every probe of Promise.all has settled
Select(s, p) ==
  IF Len(Candidates(s)) > 0
  THEN [s EXCEPT !.pc[p] = "start", !.loc[p].target = BestOf(s, Candidates(s))]
  ELSE launchBackupVM(s, p, "req")

Join(s, p) ==
  IF s.loc[p].pend = {} /\ s.loc[p].terms = {} THEN Select(s, p) ELSE s

\* lines 389-395 and 242-243
RequestArrived(s, p, matchId, valid) ==
  IF ~valid THEN Respond([s EXCEPT !.loc[p] = Loc0], p, 400)
  ELSE LET pend == { Ref(s, s.keys[k]) : k \in 1..Len(s.keys) } IN
       Join([s EXCEPT !.pc[p] = "probes",
                      !.loc[p] = [Loc0 EXCEPT !.mid = matchId, !.pend = pend]], p)

ReqProbeOk(s, p, ref, data) ==
  Join([ProbeOk(s, ref, data) EXCEPT !.loc[p].pend = @ \ {ref}], p)

ReqProbeFail(s, p, ref) ==
  LET s1 == [ProbeFail(s, ref) EXCEPT !.loc[p].pend = @ \ {ref}] IN
  IF UnreachableEligible(s1, ref)
  THEN [s1 EXCEPT !.loc[p].terms = @ \cup {ref[1]}]
  ELSE Join(s1, p)

ReqUnreachTerminated(s, p, id, ok) ==
  Join([Delete(Terminated(s, id, ok), id) EXCEPT !.loc[p].terms = @ \ {id}], p)

\* start-match succeeded, the optimistic increment of line 411 left out
StartOk_NoIncrement(s, p) ==
  Respond([s EXCEPT !.matches[s.loc[p].mid] = [vm |-> s.loc[p].target, startedAt |-> now]],
          p, 200)

\* lines 409-414: start-match succeeded
StartOk(s, p) ==
  LET id == s.loc[p].target
      s1 == [s EXCEPT !.matches[s.loc[p].mid] = [vm |-> id, startedAt |-> now]]
      s2 == IF InPool(s1, id)
            THEN SetObj(s1, Ref(s1, id), [PoolRec(s1, id) EXCEPT !.mc = @ + 1])
            ELSE s1
  IN Respond(s2, p, 200)

\* lines 415-418: start-match failed
StartFail(s, p) == Respond(s, p, 500)

\* ------------------------------------------------------------------
\* Committing a handler's result.  Record objects no longer reachable from
\* vmPool or from a task's locals are garbage and are reset.  The result is
\* bound once, so that it is computed once per step.
Commit(result) ==
  \E s \in {result} :
    /\ cloud' = s.cloud
    /\ nextInst' = s.nextInst
    /\ keys' = s.keys
    /\ cur' = s.cur
    /\ heap' = [id \in Inst |-> [g \in Gens |->
                  IF Reachable(s, <<id, g>>) THEN s.heap[id][g] ELSE Rec0]]
    /\ protectedVM' = s.prot
    /\ launching' = s.launching
    /\ matches' = s.matches
    /\ timerArmed' = s.timerArmed
    /\ pc' = s.pc
    /\ loc' = s.loc

\* ------------------------------------------------------------------
\* Actions of the reconciler

\* app.listen callback: `await updateVMs()` (line 442)
StartupTick ==
  /\ ~timerArmed /\ pc["t1"] = "idle" /\ ticksLeft > 0
  /\ ticksLeft' = ticksLeft - 1
  /\ Commit([State EXCEPT !.pc["t1"] = "sync"])
  /\ UNCHANGED <<minBackup, now, reqsLeft>>

\* setInterval(updateVMs, UPDATE_INTERVAL_MS) fires (line 444); nothing checks
\* whether an earlier updateVMs is still running
TimerFires(p) ==
  /\ timerArmed /\ ticksLeft > 0
  /\ pc[p] = "idle"
  /\ p = "t1" \/ pc["t1"] # "idle"
  /\ ticksLeft' = ticksLeft - 1
  /\ Commit([State EXCEPT !.pc[p] = "sync"])
  /\ UNCHANGED <<minBackup, now, reqsLeft>>

SyncDone(p) ==
  /\ pc[p] = "sync"
  /\ \E ok \in BOOLEAN : Commit(TickSynced(State, p, ok))
  /\ UNCHANGED <<minBackup, now, ticksLeft, reqsLeft>>

TickProbeDone(p) ==
  /\ pc[p] = "probe"
  /\ LET id == Head(loc[p].entries)[1] IN
     \/ /\ cloud[id] = "running"
        /\ \E data \in StatusReplies : Commit(TickProbeOk(State, p, data))
     \/ Commit(TickProbeFail(State, p))
  /\ UNCHANGED <<minBackup, now, ticksLeft, reqsLeft>>

TickTerminateDone(p) ==
  /\ \E ok \in BOOLEAN :
       \/ pc[p] = "termUnreach" /\ Commit(TickUnreachTerminated(State, p, ok))
       \/ pc[p] = "termIdle" /\ Commit(TickIdleTerminated(State, p, ok))
  /\ UNCHANGED <<minBackup, now, ticksLeft, reqsLeft>>

\* ------------------------------------------------------------------
\* Actions of launchBackupVM, whoever called it

RunDone(p) ==
  /\ pc[p] = "run"
  /\ \/ nextInst <= MaxInst /\ Commit(RunInstancesDone(State, p, TRUE))
     \/ Commit(RunInstancesDone(State, p, FALSE))
  /\ UNCHANGED <<minBackup, now, ticksLeft, reqsLeft>>

PollAnswered(p) ==
  /\ pc[p] = "poll"
  /\ \E seen \in { IF cloud[loc[p].inst] = "running" THEN "running" ELSE "other", "error" } :
       Commit(PollDone(State, p, seen))
  /\ UNCHANGED <<minBackup, now, ticksLeft, reqsLeft>>

CleanupDone(p) ==
  /\ pc[p] = "termLaunch"
  /\ \E ok \in BOOLEAN : Commit(LaunchCleanupDone(State, p, ok))
  /\ UNCHANGED <<minBackup, now, ticksLeft, reqsLeft>>

\* ------------------------------------------------------------------
\* Actions of a match request

Arrive(p) ==
  /\ reqsLeft > 0
  /\ pc[p] = "idle"
  /\ p = "r1" \/ pc["r1"] # "idle"
  /\ reqsLeft' = reqsLeft - 1
  /\ \E matchId \in 1..MaxMatchId, valid \in BOOLEAN :
       Commit(RequestArrived(State, p, matchId, valid))
  /\ UNCHANGED <<minBackup, now, ticksLeft>>

ReqProbeDone(p) ==
  /\ pc[p] = "probes"
  /\ \E ref \in loc[p].pend :
       \/ /\ cloud[ref[1]] = "running"
          /\ \E data \in StatusReplies : Commit(ReqProbeOk(State, p, ref, data))
       \/ Commit(ReqProbeFail(State, p, ref))
  /\ UNCHANGED <<minBackup, now, ticksLeft, reqsLeft>>

ReqTerminateDone(p) ==
  /\ pc[p] = "probes"
  /\ \E id \in loc[p].terms, ok \in BOOLEAN : Commit(ReqUnreachTerminated(State, p, id, ok))
  /\ UNCHANGED <<minBackup, now, ticksLeft, reqsLeft>>

\* POST /start-match answered: success needs a running VM; the worker may
\* refuse for reasons of its own (matchLauncher.js lines 70-83)
StartDone(p) ==
  /\ pc[p] = "start"
  /\ \/ /\ cloud[loc[p].target] = "running"
        /\ Commit(StartOk(State, p))
     \/ Commit(StartFail(State, p))
  /\ UNCHANGED <<minBackup, now, ticksLeft, reqsLeft>>

\* ------------------------------------------------------------------
\* The environment: cloud provider, workers, clock

InstanceBoots(id) ==
  /\ cloud[id] = "pending"
  /\ cloud' = [cloud EXCEPT ![id] = "running"]
  /\ UNCHANGED <<minBackup, nextInst, now, keys, cur, heap, protectedVM,
                 launching, matches, timerArmed, ticksLeft, reqsLeft, pc, loc>>

\* a spot instance is reclaimed by the provider (InstanceChargeType SPOTPAID)
InstanceReclaimed(id) ==
  /\ cloud[id] = "running"
  /\ cloud' = [cloud EXCEPT ![id] = "terminated"]
  /\ UNCHANGED <<minBackup, nextInst, now, keys, cur, heap, protectedVM,
                 launching, matches, timerArmed, ticksLeft, reqsLeft, pc, loc>>

AdvanceTime ==
  /\ now < MaxTime
  /\ now' = now + 1
  /\ UNCHANGED <<minBackup, cloud, nextInst, keys, cur, heap, protectedVM,
                 launching, matches, timerArmed, ticksLeft, reqsLeft, pc, loc>>

\* ------------------------------------------------------------------
\* The state after construction.  The registry is in memory only: when the
\* process starts, `pre` instances of an earlier run may still be running in
\* the cloud.
InitWith(min, ticks, reqs, pres) ==
  /\ minBackup = min
  /\ \E pre \in pres :
       /\ cloud = [id \in Inst |-> IF id <= pre THEN "running" ELSE "none"]
       /\ nextInst = pre + 1
  /\ now = 0
  /\ keys = <<>>
  /\ cur = [id \in Inst |-> 0]
  /\ heap = [id \in Inst |-> [g \in Gens |-> Rec0]]
  /\ protectedVM = NULL
  /\ launching = FALSE
  /\ matches = [m \in 1..MaxMatchId |-> NoMatch]
  /\ timerArmed = FALSE
  /\ ticksLeft = ticks
  /\ reqsLeft = reqs
  /\ pc = [p \in Procs |-> "idle"]
  /\ loc = [p \in Procs |-> Loc0]

\* The startup reconcile and match requests, the cloud empty at startup.
Init == InitWith(1, 1, MaxReqs, {0})

Next ==
  \/ StartupTick
  \/ \E p \in Ticks : SyncDone(p)
  \/ \E p \in Ticks : TickProbeDone(p)
  \/ \E p \in Ticks : TickTerminateDone(p)
  \/ \E p \in Procs : RunDone(p)
  \/ \E p \in Procs : PollAnswered(p)
  \/ \E p \in Procs : CleanupDone(p)
  \/ \E p \in Reqs : Arrive(p)
  \/ \E p \in Reqs : ReqProbeDone(p)
  \/ \E p \in Reqs : ReqTerminateDone(p)
  \/ \E p \in Reqs : StartDone(p)
  \/ \E id \in Inst : InstanceBoots(id)
  \/ \E id \in Inst : InstanceReclaimed(id)
  \/ AdvanceTime

Spec == Init /\ [][Next]_vars

\* The reconciler alone: the startup reconcile, then the periodic timer.
InitTicks == InitWith(1, MaxTicks, 0, {0})

NextTicks ==
  \/ StartupTick
  \/ \E p \in Ticks : TimerFires(p)
  \/ \E p \in Ticks : SyncDone(p)
  \/ \E p \in Ticks : TickProbeDone(p)
  \/ \E p \in Ticks : TickTerminateDone(p)
  \/ \E p \in Ticks : RunDone(p)
  \/ \E p \in Ticks : PollAnswered(p)
  \/ \E p \in Ticks : CleanupDone(p)
  \/ \E id \in Inst : InstanceBoots(id)
  \/ \E id \in Inst : InstanceReclaimed(id)
  \/ AdvanceTime

SpecTicks == InitTicks /\ [][NextTicks]_vars

\* ------------------------------------------------------------------
\* The reconciler in a healthy world: no match requests, every cloud call
\* succeeds, every worker answers its status probe, a launched instance is
\* RUNNING before the poll loop runs out, the provider reclaims nothing, and a
\* tick is over before the timer fires again.  MIN_BACKUP_VMS is 1 or 2.

MaxMin == 2

SteadyTimer ==
  /\ \A q \in Ticks : pc[q] = "idle"
  /\ TimerFires("t1")

SteadySync(p) ==
  /\ pc[p] = "sync"
  /\ Commit(TickSynced(State, p, TRUE))
  /\ UNCHANGED <<minBackup, now, ticksLeft, reqsLeft>>

\* no match was ever started, so a worker reports activeMatches = 0 each time
SteadyProbe(p) ==
  /\ pc[p] = "probe"
  /\ cloud[Head(loc[p].entries)[1]] = "running"
  /\ Commit(TickProbeOk(State, p, [finite |-> TRUE, v |-> 0]))
  /\ UNCHANGED <<minBackup, now, ticksLeft, reqsLeft>>

SteadyTerminate(p) ==
  /\ pc[p] = "termIdle"
  /\ Commit(TickIdleTerminated(State, p, TRUE))
  /\ UNCHANGED <<minBackup, now, ticksLeft, reqsLeft>>

SteadyRun(p) ==
  /\ pc[p] = "run"
  /\ nextInst <= MaxInst
  /\ Commit(RunInstancesDone(State, p, TRUE))
  /\ UNCHANGED <<minBackup, now, ticksLeft, reqsLeft>>

SteadyPoll(p) ==
  /\ pc[p] = "poll"
  /\ LET seen == IF cloud[loc[p].inst] = "running" THEN "running" ELSE "other" IN
       /\ seen = "running" \/ loc[p].polls + 1 < maxPoll
       /\ Commit(PollDone(State, p, seen))
  /\ UNCHANGED <<minBackup, now, ticksLeft, reqsLeft>>

InitSteady == \E min \in 1..MaxMin : InitWith(min, MaxTicks, 0, {0})

NextSteady ==
  \/ StartupTick
  \/ SteadyTimer
  \/ \E p \in Ticks : SteadySync(p)
  \/ \E p \in Ticks : SteadyProbe(p)
  \/ \E p \in Ticks : SteadyTerminate(p)
  \/ \E p \in Ticks : SteadyRun(p)
  \/ \E p \in Ticks : SteadyPoll(p)
  \/ \E id \in Inst : InstanceBoots(id)
  \/ AdvanceTime

SpecSteady == InitSteady /\ [][NextSteady]_vars

\* ------------------------------------------------------------------
\* The allocator restarted while instances of an earlier run are RUNNING:
\* MIN_BACKUP_VMS = 2, the startup reconcile and one match request.
InitFloor == InitWith(2, 1, 1, {2, 3})

SpecFloor == InitFloor /\ [][Next]_vars

\* ------------------------------------------------------------------
\* The startup reconcile and one match request, with the awaited calls of
\* launchBackupVM always answered: a pending RunInstances, DescribeInstances
\* (after its safeWait timer) or TerminateInstances promise settles, by a
\* result or by an error, and Node then runs the continuation.
InitLaunch == InitWith(1, 1, 1, {0, 2})

LaunchStep == \E p \in Procs : RunDone(p) \/ PollAnswered(p) \/ CleanupDone(p)

FairLaunch == WF_vars(LaunchStep)

SpecLaunch == InitLaunch /\ [][Next]_vars /\ FairLaunch

\* ------------------------------------------------------------------
\* Properties

LaunchPcs == {"run", "poll", "termLaunch"}
InLaunch(p) == pc[p] \in LaunchPcs
InPoolNow(id) == cur[id] # 0
Record(id) == heap[id][cur[id]]

\* C1: protectedVM is null or the instanceId of a record present in vmPool.
C1_ProtectedInPool == protectedVM = NULL \/ InPoolNow(protectedVM)

\* C2: at most one launchBackupVM invocation is between RunInstances and the
\* end of polling/cleanup, the flag is set exactly then, and a task that is
\* not the one launching never gets past the guard while the flag is set: it
\* issues no RunInstances call and is not waiting inside launchBackupVM
\* afterwards.
C2_OneLaunch ==
  /\ Cardinality({ p \in Procs : InLaunch(p) }) <= 1
  /\ launching <=> \E p \in Procs : InLaunch(p)

C2_Refused ==
  \A p \in Procs :
    (launching /\ ~InLaunch(p)) =>
       /\ pc'[p] \notin LaunchPcs
       /\ loc'[p].runs <= loc[p].runs
       /\ loc'[p].guard # "passed" \/ loc[p].guard = "passed"

C2_SingleFlight == [](C2_OneLaunch) /\ [][C2_Refused]_vars

\* a request was refused by the flag while another task is launching
C2_Witness ==
  \E p \in Reqs, q \in Procs :
    /\ p # q /\ InLaunch(q)
    /\ pc[p] = "idle" /\ loc[p].guard = "busy" /\ loc[p].runs = 0 /\ loc[p].resp = 503

\* C3: at most one execution of updateVMs is in flight.
C3_OneTickInFlight == Cardinality({ p \in Ticks : pc[p] # "idle" }) <= 1

\* ------------------------------------------------------------------
\* this step is the `delete vmPool[id]` (lines 226, 352) that follows the
\* TerminateInstances call task p was awaiting for id
Removes(p, id) ==
  IF pc[p] \in {"termUnreach", "termIdle"}
  THEN /\ id = Head(loc[p].entries)[1]
       /\ (pc'[p] # pc[p] \/ loc'[p].entries # loc[p].entries)
  ELSE /\ pc[p] = "probes"
       /\ id \in loc[p].terms
       /\ id \notin loc'[p].terms

\* C4: when the idle or unreachable path removes a tracked VM after its
\* TerminateInstances call, the VM is not protectedVM, |vmPool| > MIN_BACKUP_VMS
\* and the VM's age is at least VM_AGE_TERMINATE_MINUTES at that moment.
C4_TerminationGuarded ==
  [][\A p \in Procs, id \in Inst :
       (Removes(p, id) /\ InPoolNow(id)) =>
          /\ id # protectedVM
          /\ Len(keys) > MIN_BACKUP_VMS
          /\ Minutes(now - Record(id).la) >= VM_AGE_TERMINATE_MINUTES]_vars

\* C5: when a reconciler tick that called RunInstances ends, |vmPool| is at
\* most MAX_BACKUP_VMS.
C5_PoolCeiling ==
  [][\A p \in Ticks :
       (pc[p] # "idle" /\ pc'[p] = "idle" /\ loc[p].runs > 0) =>
          Len(keys') <= MAX_BACKUP_VMS]_vars

\* ------------------------------------------------------------------
\* the step in which POST /start-match of request p is answered
StartAnswered(p) == pc[p] = "start" /\ pc'[p] = "idle"

\* the record of id in vmPool is the same object, its matchCount one higher
Incremented(id) ==
  /\ InPoolNow(id) /\ cur'[id] = cur[id]
  /\ heap'[id][cur[id]] = [Record(id) EXCEPT !.mc = @ + 1]

\* C7 as stated: the chosen VM's matchCount is incremented by one if and only
\* if start-match returned success.
C7_IncrementIffSuccess ==
  [][\A p \in Reqs :
       StartAnswered(p) => (loc'[p].resp = 200 <=> Incremented(loc[p].target))]_vars

\* C7 amended: the matchCount of the chosen VM's record is incremented by one
\* if and only if start-match returned success and vmPool holds a record for
\* the VM at that moment; in every other case vmPool is left as it is.
C7_IncrementIffSuccessAndTracked ==
  [][\A p \in Reqs :
       StartAnswered(p) =>
          /\ (loc'[p].resp = 200 /\ InPoolNow(loc[p].target)) <=> Incremented(loc[p].target)
          /\ ~Incremented(loc[p].target) => (heap' = heap /\ cur' = cur)
          /\ keys' = keys]_vars

\* a match was started on a VM that is tracked, and its matchCount counts it
C7_Witness ==
  \E p \in Reqs :
    /\ pc[p] = "idle" /\ loc[p].resp = 200
    /\ matches[1] # NoMatch
    /\ InPoolNow(matches[1].vm) /\ Record(matches[1].vm).mc = 1

\* ------------------------------------------------------------------
\* the step in which getAvailableVM of request p has all its probes settled
Selects(p) == pc[p] = "probes" /\ pc'[p] # "probes"

\* the candidate set at that moment, as line 247 computes it
CandidatesAfter == { id \in Inst : cur'[id] # 0 /\ heap'[id][cur'[id]].mc < FULL_MATCH_LIMIT }

RecordAfter(id) == heap'[id][cur'[id]]

\* C8: a tracked VM returned by getAvailableVM has matchCount < FULL_MATCH_LIMIT
\* and unreachableCount = 0 at the moment of selection.
C8_SelectedIsReachable ==
  [][\A p \in Reqs :
       (Selects(p) /\ pc'[p] = "start") =>
          /\ RecordAfter(loc'[p].target).mc < FULL_MATCH_LIMIT
          /\ RecordAfter(loc'[p].target).uc = 0]_vars

\* the candidate set as the specification defines it: a free slot and the
\* latest probe answered
ReachableCandidatesAfter ==
  { id \in CandidatesAfter : RecordAfter(id).uc = 0 }

\* a is at least as good a choice as b by (matchCount, lastSeen)
NoWorse(a, b) == a.mc < b.mc \/ (a.mc = b.mc /\ a.ls <= b.ls)

\* C9: when the candidate set (matchCount < FULL_MATCH_LIMIT and
\* unreachableCount = 0) is not empty, getAvailableVM returns a candidate whose
\* matchCount is minimal among the candidates and whose lastSeen is minimal
\* among the candidates of that matchCount, and it does not call
\* launchBackupVM.
C9_LeastLoadedCandidate ==
  [][\A p \in Reqs :
       (Selects(p) /\ ReachableCandidatesAfter # {}) =>
          /\ pc'[p] = "start"
          /\ loc'[p].target \in ReachableCandidatesAfter
          /\ \A id \in ReachableCandidatesAfter :
               NoWorse(RecordAfter(loc'[p].target), RecordAfter(id))
          /\ loc'[p].runs = 0 /\ ~loc'[p].fresh]_vars

\* The order itself is the one stated, over the set line 247 filters: the VM
\* returned is minimal by (matchCount, lastSeen) among the tracked VMs with
\* matchCount < FULL_MATCH_LIMIT, and nothing is launched when there is one.
LeastLoadedAmongFreeSlots ==
  [][\A p \in Reqs :
       (Selects(p) /\ CandidatesAfter # {}) =>
          /\ pc'[p] = "start"
          /\ loc'[p].target \in CandidatesAfter
          /\ \A id \in CandidatesAfter :
               NoWorse(RecordAfter(loc'[p].target), RecordAfter(id))
          /\ loc'[p].guard = "none" /\ loc'[p].runs = 0 /\ ~loc'[p].fresh]_vars

\* ------------------------------------------------------------------
\* every tracked VM is full and the pool is below its ceiling when the probes
\* of request p have settled
AllFullAfter ==
  /\ keys' # <<>>
  /\ Len(keys') < MAX_BACKUP_VMS
  /\ \A id \in Inst : cur'[id] # 0 => RecordAfter(id).mc = FULL_MATCH_LIMIT

\* C10 as stated: the request then issues exactly one RunInstances call, also
\* when another task is inside launchBackupVM.
C10_OneLaunchPerRequest ==
  [][\A p \in Reqs :
       (Selects(p) /\ AllFullAfter) => (pc'[p] = "run" /\ loc'[p].runs = 1)]_vars

\* C10 amended: the request then issues exactly one RunInstances call if no
\* other task is inside launchBackupVM; if one is, it issues none and is
\* answered 503.  A request never issues more than one.
C10_LaunchRule ==
  \A p \in Reqs :
    (Selects(p) /\ AllFullAfter) =>
       IF launching
       THEN pc'[p] = "idle" /\ loc'[p].resp = 503 /\ loc'[p].runs = 0
       ELSE pc'[p] = "run" /\ loc'[p].runs = 1 /\ launching'

C10_OneLaunchUnlessBusy ==
  [](\A p \in Reqs : loc[p].runs <= 1) /\ [][C10_LaunchRule]_vars

\* a request is launching because the only tracked VM is full
C10_Witness ==
  \E p \in Reqs :
    /\ pc[p] = "run" /\ loc[p].runs = 1
    /\ Len(keys) = 1 /\ Record(keys[1]).mc = FULL_MATCH_LIMIT /\ Record(keys[1]).uc = 0

\* ------------------------------------------------------------------
\* the step in which tick p ends
TickEnds(p) == pc[p] # "idle" /\ pc'[p] = "idle"

\* the pool size a tick can reach: MIN_BACKUP_VMS, the pool ceiling permitting
Floor == IF MIN_BACKUP_VMS <= MAX_BACKUP_VMS THEN MIN_BACKUP_VMS ELSE MAX_BACKUP_VMS

\* C6: when a reconciler tick ends in which no cloud call failed and no launch
\* timed out, |vmPool| >= min(MIN_BACKUP_VMS, MAX_BACKUP_VMS).
C6_PoolFloor ==
  [][\A p \in Ticks : (TickEnds(p) /\ loc'[p].clean) => Len(keys') >= Floor]_vars

\* ------------------------------------------------------------------
\* every tracked VM is full when the probes of a request have settled
EveryVMFullAfter ==
  /\ keys' # <<>>
  /\ \A id \in Inst : cur'[id] # 0 => RecordAfter(id).mc = FULL_MATCH_LIMIT

\* C11: when every tracked VM has matchCount = FULL_MATCH_LIMIT and
\* |vmPool| = MAX_BACKUP_VMS, a match request is answered 503 without a
\* RunInstances call and without a start-match call.
C11_Saturated503 ==
  [][\A p \in Reqs :
       (Selects(p) /\ EveryVMFullAfter /\ Len(keys') = MAX_BACKUP_VMS) =>
          /\ pc'[p] = "idle"
          /\ loc'[p].resp = 503
          /\ loc'[p].runs = 0]_vars

\* a request was refused at the pool ceiling, every VM being full
C11_Witness ==
  \E p \in Reqs :
    /\ pc[p] = "idle" /\ loc[p].resp = 503 /\ loc[p].guard = "full" /\ loc[p].runs = 0
    /\ Len(keys) = MAX_BACKUP_VMS
    /\ \A id \in Inst : InPoolNow(id) => Record(id).mc = FULL_MATCH_LIMIT

\* ------------------------------------------------------------------
\* C13: a match record, once stored for a matchId, is never replaced or
\* changed: whatever happens later, matches[matchId] stays what it was.
C13_MatchRecordKept ==
  [][\A m \in 1..MaxMatchId : matches[m] # NoMatch => matches'[m] = matches[m]]_vars

\* ------------------------------------------------------------------
\* the registry as a client of the debug endpoint sees it: the tracked
\* instanceIds with their matchCount and unreachableCount
Registry == { <<id, Record(id).mc, Record(id).uc>> : id \in { i \in Inst : InPoolNow(i) } }

\* the step in which request p is answered 503 (line 396)
Answers503(p) == pc[p] # "idle" /\ pc'[p] = "idle" /\ loc'[p].resp = 503

\* C15: a request that ends in 503 changes no state: the step in which it is
\* answered leaves the set of records, their matchCount and unreachableCount,
\* protectedVM and the match map as they were.
C15_NoChangeOn503 ==
  [][\A p \in Reqs :
       Answers503(p) =>
          /\ Registry' = Registry
          /\ protectedVM' = protectedVM
          /\ matches' = matches]_vars

\* ------------------------------------------------------------------
\* the step in which the launch of task p gets the answer of a poll
PollStep(p) ==
  /\ pc[p] = "poll"
  /\ (pc'[p] # "poll" \/ loc'[p].polls # loc[p].polls)

\* the step in which the launch of task p returns after its polls ran out
TimeoutReturn(p) == pc[p] = "termLaunch" /\ pc'[p] # "termLaunch"

\* C18: launchBackupVM makes the new instance the protectedVM only when
\* protectedVM is null and the instance was registered in vmPool; when the
\* polls run out it returns leaving the instance neither in vmPool nor as
\* protectedVM.
C18_ProtectOnSuccessOnly ==
  [][\A p \in Procs :
       /\ (PollStep(p) /\ protectedVM' # protectedVM) =>
             /\ protectedVM = NULL
             /\ protectedVM' = loc[p].inst
             /\ cur'[loc[p].inst] # 0
       /\ TimeoutReturn(p) =>
             /\ cur'[loc[p].inst] = 0
             /\ protectedVM' # loc[p].inst]_vars

\* ------------------------------------------------------------------
\* the step in which the DescribeInstances({}) call of tick p is answered;
\* loc'[p].clean tells whether it succeeded
SyncStep(p) == pc[p] = "sync" /\ pc'[p] # "sync"

\* C19: right after a cloud sync whose DescribeInstances succeeded, the
\* tracked instances are exactly the instances the cloud reports RUNNING (with
\* a public IP), the records added have matchCount = 0 and unreachableCount =
\* 0, and the records that were there are untouched; if DescribeInstances
\* failed, vmPool is unchanged, protectedVM is unchanged by the sync phase and
\* the tick goes on with its later phases.
C19_SyncReconciles ==
  [][\A p \in Ticks :
       SyncStep(p) =>
          IF loc'[p].clean
          THEN \A id \in Inst :
                 /\ cur'[id] # 0 <=> cloud[id] = "running"
                 /\ (cur[id] = 0 /\ cur'[id] # 0) =>
                       (RecordAfter(id).mc = 0 /\ RecordAfter(id).uc = 0)
                 /\ (cur[id] # 0 /\ cur'[id] # 0) =>
                       (cur'[id] = cur[id] /\ RecordAfter(id) = Record(id))
          ELSE /\ keys' = keys /\ cur' = cur
               /\ \A id \in Inst : cur[id] # 0 => RecordAfter(id) = Record(id)
               /\ pc'[p] # "idle" => protectedVM' = protectedVM
               /\ pc'[p] \in {"probe", "run", "idle"}]_vars

\* a tick is past a successful sync and none of its probes is answered yet:
\* a tracked VM carries a match, and an instance the cloud has terminated is
\* not tracked
C19_Witness ==
  \E p \in Ticks, a \in Inst, c \in Inst :
    /\ pc[p] = "probe" /\ loc[p].clean
    /\ loc[p].entries = [k \in 1..Len(keys) |-> <<keys[k], cur[keys[k]]>>]
    /\ InPoolNow(a) /\ Record(a).mc >= 1
    /\ cloud[c] = "terminated" /\ ~InPoolNow(c)

\* ------------------------------------------------------------------
\* updateVMs has run this many times and none is running
TicksOver(n) ==
  /\ ticksLeft = MaxTicks - n
  /\ \A p \in Ticks : pc[p] = "idle"

\* C12: from a cold start with MIN_BACKUP_VMS = 1 and no match requests, once
\* the startup reconcile and one further tick are over, every launch having
\* succeeded, vmPool holds exactly one VM and protectedVM is that VM.
C12_ColdStartOneVM ==
  (minBackup = 1 /\ TicksOver(2)) => (Len(keys) = 1 /\ protectedVM = keys[1])

\* C14: once a tick is over, a further tick run in the same conditions (no
\* cloud change, workers healthy and reporting the same activeMatches, no
\* match request) leaves the registry as the tick before left it: the same
\* tracked instances with the same matchCount and unreachableCount, nothing
\* launched and nothing terminated.
C14_TicksIdempotent == [][timerArmed => Registry' = Registry]_vars

\* the step in which tick p calls RunInstances from the top-up loop
TopUpRun(p) ==
  /\ pc[p] # "run" /\ pc'[p] = "run"
  /\ loc'[p].lret = "topup"

\* C17: the top-up phase of one tick issues at most one RunInstances call,
\* whatever the gap MIN_BACKUP_VMS - |vmPool| is.
C17_OneTopUpLaunch ==
  [][\A p \in Ticks : TopUpRun(p) => loc'[p].i = 0]_vars

\* ------------------------------------------------------------------
\* C20: a removal that follows an idle or unreachable termination never
\* leaves fewer than MIN_BACKUP_VMS records in vmPool, whether the probe that
\* led to it was one of the reconciler's sequential probes or one of the
\* parallel probes of getAvailableVM.  (The cloud sync runs once, before any
\* probe, in SpecFloor.)
C20_TerminationsKeepFloor ==
  [][\A p \in Procs, id \in Inst :
       (Removes(p, id) /\ InPoolNow(id) /\ Len(keys) >= MIN_BACKUP_VMS) =>
          Len(keys') >= MIN_BACKUP_VMS]_vars

\* ------------------------------------------------------------------
\* C16: a launchBackupVM invocation that set the single-flight flag clears it
\* again, whichever way it ends (RunInstances error, poll success, poll
\* timeout with TerminateInstances succeeding or failing), and the flag is
\* set only while some task is inside launchBackupVM, so a finished launch
\* never makes a later one be refused.
C16_FlagCleared ==
  /\ launching ~> ~launching
  /\ [](launching => \E p \in Procs : InLaunch(p))

\* a request's launch ended by the poll timeout with TerminateInstances
\* failing (the instance is still pending in the cloud and untracked), the
\* request was answered 503, and the flag is clear with no launch running
C16_Witness ==
  /\ ~launching
  /\ \A p \in Procs : ~InLaunch(p)
  /\ \E p \in Reqs : /\ pc[p] = "idle" /\ loc[p].resp = 503
                    /\ loc[p].runs = 1 /\ loc[p].guard = "passed"
  /\ \E id \in Inst : cloud[id] = "pending" /\ ~InPoolNow(id)

\* ------------------------------------------------------------------
\* the free slots of the VMs in vmPool after the step, from id upwards:
\* max(0, FULL_MATCH_LIMIT - matchCount) summed over the tracked VMs
RECURSIVE FreeSlotsAfter(_)
FreeSlotsAfter(id) ==
  IF id > MaxInst THEN 0
  ELSE (IF cur'[id] # 0 /\ FULL_MATCH_LIMIT - RecordAfter(id).mc > 0
        THEN FULL_MATCH_LIMIT - RecordAfter(id).mc ELSE 0)
       + FreeSlotsAfter(id + 1)

\* the step in which tick p finds the scale-up condition of line 374 true and
\* calls RunInstances for it
ScaleUpRun(p) ==
  /\ loc[p].lret # "scale"
  /\ pc'[p] = "run" /\ loc'[p].lret = "scale"

\* C21: the low-capacity scale-up is decided on the free slots of the VMs
\* that are in vmPool at that moment, those launched by the top-up of the same
\* tick included: a tick launches for low capacity only when these free slots
\* are at most NEAR_CAPACITY_THRESHOLD.  (In SpecSteady every VM in vmPool at
\* that moment was probed successfully in this tick or launched by its
\* top-up.)
C21_ScaleUpOnPoolFreeSlots ==
  [][\A p \in Ticks :
       ScaleUpRun(p) => FreeSlotsAfter(1) <= NEAR_CAPACITY_THRESHOLD]_vars

====
